---- MODULE Spec2Model ----
(***************************************************************************)
(* Ledger core of vantrack-backend: the transactions, contacts and drafts  *)
(* tables and the request handlers create_transaction and get_balances     *)
(* (app/api/transactions.py), create_draft, update_draft, confirm_draft    *)
(* and discard_draft (app/api/drafts.py), create_contact and               *)
(* delete_contact (app/api/contacts.py).  Requests are served one at a     *)
(* time: every handler is one atomic step from the state before the        *)
(* request to the state its commit (or its failure) leaves in the          *)
(* database.  The last part of the module serves payments and              *)
(* confirmations concurrently: a request in flight has read the committed  *)
(* rows and holds the values it computed until its commit writes them.     *)
(*                                                                         *)
(* Amounts are integers (the code uses floats; only min, subtraction and   *)
(* comparison are applied to them).  Identifiers are allocated 1, 2, ...   *)
(* in place of fresh UUIDs.  Transaction.date defaults to utcnow at        *)
(* insert: it is the value of a clock that advances with every request     *)
(* that inserts transaction rows.  description, category, due_date and     *)
(* metadata_json are copied and never read by the handlers; they are left  *)
(* out.                                                                    *)
(***************************************************************************)
EXTENDS Integers, Sequences, FiniteSets, TLC

\* ---------------------------------------------------------------- bounds
MaxRequests == 3
MaxDrafts == 1
MaxAmount == 2
MaxSessions == 2
MaxContacts == 2

\* ------------------------------------------------------- enums and None
NoId == 0
NoName == "<none>"
NoStatus == "<none>"
NoAmount == {}

TransactionType ==
  {"expense", "income", "transfer", "credit_receivable", "credit_payable",
   "loan_receivable", "loan_payable", "payment_received", "payment_made"}

OpeningTypes ==
  {"credit_receivable", "credit_payable", "loan_receivable", "loan_payable"}

PaymentTypes == {"payment_received", "payment_made"}

AccountType == {"cash", "bank"}

DebtStatus == {"open", "partial", "settled"}

\* func.lower / str.lower on the contact names the requests use (ASCII
\* names, on which the database's lower and Python's agree)
Lower(name) ==
  CASE name = "Ana" -> "ana"
    [] name = "ana" -> "ana"
    [] name = "Bob" -> "bob"
    [] OTHER -> name

\* ----------------------------------------------------------------- state
VARIABLES
  transactions,   \* id -> row of the transactions table
  contacts,       \* id -> row of the contacts table
  drafts,         \* id -> row of the drafts table
  now,            \* the clock Transaction.date is read from
  last,           \* the request served last and its outcome
  sessions        \* slot -> the request in flight: what it read and computed

vars == <<transactions, contacts, drafts, now, last, sessions>>

NoRequest ==
  [op |-> "none", ok |-> TRUE, user_id |-> "", type |-> "", amount |-> 0,
   contact_name |-> NoName, contact_id |-> NoId,
   linked_transaction_id |-> NoId, draft_id |-> NoId, created |-> {}]

Init ==
  /\ transactions = << >>
  /\ contacts = << >>
  /\ drafts = << >>
  /\ now = 1
  /\ last = NoRequest
  /\ sessions = << >>

\* the value of an Optional[float]
Val(opt) == CHOOSE v \in opt : TRUE

Min(a, b) == IF a <= b THEN a ELSE b

\* table with one more row
Insert(table, row) ==
  [i \in DOMAIN table \cup {row.id} |-> IF i = row.id THEN row ELSE table[i]]

\* a fresh identifier: one that no row of the table has.  After a delete
\* no row refers to the identifier deleted (ON DELETE SET NULL), so that
\* taking it again is taking a fresh one.
NewId(table) ==
  CHOOSE i \in 1 .. (Cardinality(DOMAIN table) + 1) : i \notin DOMAIN table

\* ------------------------------------------------------------- contacts
\* faulty variant of ContactsNamed: the names are compared as they are
ContactsNamed_Exact(user, name) ==
  {c \in DOMAIN contacts :
     /\ contacts[c].user_id = user
     /\ contacts[c].name = name}

\* select(Contact).where(user_id == current_user.id,
\*                       lower(name) == contact_name.lower())
ContactsNamed(user, name) ==
  {c \in DOMAIN contacts :
     /\ contacts[c].user_id = user
     /\ Lower(contacts[c].name) = Lower(name)}

\* "Handle contact linking": an explicit contact_id is used unchanged; else a
\* name is looked up ignoring case and a contact is created when none matches.
\* scalar_one_or_none raises when several rows match.
ResolveContact(user, contact_name, contact_id) ==
  LET lookup == contact_name # NoName /\ contact_id = NoId
      found == ContactsNamed(user, contact_name)
      new_contact ==
        [id |-> NewId(contacts), user_id |-> user, name |-> contact_name]
  IN  IF ~lookup
        THEN [error |-> FALSE, contact_id |-> contact_id, contacts |-> contacts]
      ELSE IF Cardinality(found) > 1
        THEN [error |-> TRUE, contact_id |-> NoId, contacts |-> contacts]
      ELSE IF found # {}
        THEN [error |-> FALSE, contact_id |-> CHOOSE c \in found : TRUE,
              contacts |-> contacts]
      ELSE [error |-> FALSE, contact_id |-> new_contact.id,
            contacts |-> Insert(contacts, new_contact)]

\* ----------------------------------------------------------- settlement
\* faulty variant of DebtTypesFor: debts of either direction
DebtTypesFor_Any(type) ==
  {"credit_receivable", "loan_receivable", "credit_payable", "loan_payable"}

\* debt_types of a payment: receivables for payment_received, else payables
DebtTypesFor(type) ==
  IF type = "payment_received"
    THEN {"credit_receivable", "loan_receivable"}
    ELSE {"credit_payable", "loan_payable"}

\* debt.remaining_amount if debt.remaining_amount is not None else debt.amount
CurrentRemaining(debt) ==
  IF debt.remaining_amount # NoAmount THEN Val(debt.remaining_amount)
  ELSE debt.amount

\* faulty variant of ApplyAmount: the whole remaining payment, without the min
ApplyAmount_Whole(remaining_payment, current_remaining) == remaining_payment

\* apply_amount = min(remaining_payment, current_remaining)
ApplyAmount(remaining_payment, current_remaining) ==
  Min(remaining_payment, current_remaining)

\* DebtStatus.settled if new_remaining == 0 else DebtStatus.partial
StatusAfter(new_remaining) ==
  IF new_remaining = 0 THEN "settled" ELSE "partial"

\* the debt row after apply_amount was applied to it
Settle(debt, apply_amount) ==
  LET new_remaining == CurrentRemaining(debt) - apply_amount
  IN  [debt EXCEPT !.remaining_amount = {new_remaining},
                   !.status = StatusAfter(new_remaining)]

\* faulty variant of LinkedTx: the transaction is fetched by id alone
LinkedTx_AnyOwner(user, linked_transaction_id) ==
  IF /\ linked_transaction_id # NoId
     /\ linked_transaction_id \in DOMAIN transactions
    THEN <<linked_transaction_id>>
    ELSE << >>

\* the linked transaction, fetched by id and owner: <<id>> or << >>
LinkedTx(user, linked_transaction_id) ==
  IF /\ linked_transaction_id # NoId
     /\ linked_transaction_id \in DOMAIN transactions
     /\ transactions[linked_transaction_id].user_id = user
    THEN <<linked_transaction_id>>
    ELSE << >>

\* faulty variant of OpenDebts: the linked transaction is not excluded
OpenDebts_WithLinked(user, type, contact_name, contact_id, linked_transaction_id) ==
  {d \in DOMAIN transactions :
     /\ transactions[d].user_id = user
     /\ transactions[d].type \in DebtTypesFor(type)
     /\ transactions[d].status # NoStatus
     /\ transactions[d].status # "settled"
     /\ IF contact_id # NoId
          THEN transactions[d].contact_id = contact_id
        ELSE IF contact_name # NoName
          THEN /\ transactions[d].contact_name # NoName
               /\ Lower(transactions[d].contact_name) = Lower(contact_name)
        ELSE TRUE}

\* the rows the FIFO debt_query selects
OpenDebts(user, type, contact_name, contact_id, linked_transaction_id) ==
  {d \in DOMAIN transactions :
     /\ transactions[d].user_id = user
     /\ transactions[d].type \in DebtTypesFor(type)
     /\ transactions[d].status # NoStatus
     /\ transactions[d].status # "settled"
     /\ IF contact_id # NoId
          THEN transactions[d].contact_id = contact_id
        ELSE IF contact_name # NoName
          THEN /\ transactions[d].contact_name # NoName
               /\ Lower(transactions[d].contact_name) = Lower(contact_name)
        ELSE TRUE
     /\ linked_transaction_id # NoId => d # linked_transaction_id}

\* faulty variant of OrderByDateAsc: newest first
RECURSIVE OrderByDateDesc(_)
OrderByDateDesc(ids) ==
  IF ids = {} THEN << >>
  ELSE LET first == CHOOSE d \in ids :
                      \A e \in ids : transactions[d].date >= transactions[e].date
       IN  <<first>> \o OrderByDateDesc(ids \ {first})

\* order_by(Transaction.date.asc()): oldest first
RECURSIVE OrderByDateAsc(_)
OrderByDateAsc(ids) ==
  IF ids = {} THEN << >>
  ELSE LET first == CHOOSE d \in ids :
                      \A e \in ids : transactions[d].date <= transactions[e].date
       IN  <<first>> \o OrderByDateAsc(ids \ {first})

\* faulty variant of DebtsToApply: the linked transaction after the FIFO debts
DebtsToApply_LinkedLast(user, tx_data, contact_id) ==
  ( IF tx_data.amount > 0 /\ (tx_data.contact_name # NoName \/ contact_id # NoId)
      THEN OrderByDateAsc(OpenDebts(user, tx_data.type, tx_data.contact_name,
                                    contact_id, tx_data.linked_transaction_id))
      ELSE << >> )
  \o LinkedTx(user, tx_data.linked_transaction_id)

\* debts_to_apply: the linked transaction first, then the FIFO debts
DebtsToApply(user, tx_data, contact_id) ==
  LinkedTx(user, tx_data.linked_transaction_id) \o
  ( IF tx_data.amount > 0 /\ (tx_data.contact_name # NoName \/ contact_id # NoId)
      THEN OrderByDateAsc(OpenDebts(user, tx_data.type, tx_data.contact_name,
                                    contact_id, tx_data.linked_transaction_id))
      ELSE << >> )

\* "for debt in debts_to_apply": the table after the walk and, per debt
\* touched, the debt and the amount of its payment record
RECURSIVE ApplyPayment(_, _, _, _)
ApplyPayment(debts_to_apply, remaining_payment, txs, created) ==
  IF debts_to_apply = << >> \/ remaining_payment <= 0
    THEN [transactions |-> txs, created |-> created]
  ELSE LET d == Head(debts_to_apply)
           apply_amount == ApplyAmount(remaining_payment, CurrentRemaining(txs[d]))
       IN  ApplyPayment(Tail(debts_to_apply),
                        remaining_payment - apply_amount,
                        [txs EXCEPT ![d] = Settle(txs[d], apply_amount)],
                        Append(created, [debt |-> d, amount |-> apply_amount]))

\* faulty variant of NewTx: every row carries the amount of the request
NewTx_FullAmount(id, user, tx_data, contact_id, amount, linked_transaction_id) ==
  [id |-> id, user_id |-> user, date |-> now, amount |-> tx_data.amount,
   type |-> tx_data.type, account |-> tx_data.account,
   contact_name |-> tx_data.contact_name, contact_id |-> contact_id,
   linked_transaction_id |-> linked_transaction_id,
   remaining_amount |-> NoAmount, status |-> NoStatus]

\* Transaction(...) as the handlers construct it
NewTx(id, user, tx_data, contact_id, amount, linked_transaction_id) ==
  [id |-> id, user_id |-> user, date |-> now, amount |-> amount,
   type |-> tx_data.type, account |-> tx_data.account,
   contact_name |-> tx_data.contact_name, contact_id |-> contact_id,
   linked_transaction_id |-> linked_transaction_id,
   remaining_amount |-> NoAmount, status |-> NoStatus]

\* faulty variant of OpenDebt: remaining_amount is left unset
OpenDebt_NoRemaining(tx) ==
  IF tx.type \in OpeningTypes THEN [tx EXCEPT !.status = "open"] ELSE tx

\* "Handle debt status for credit/loan transactions"
OpenDebt(tx) ==
  IF tx.type \in OpeningTypes
    THEN [tx EXCEPT !.status = "open", !.remaining_amount = {tx.amount}]
    ELSE tx

\* the payment records of a walk, one per entry of created
RECURSIVE AddPayments(_, _, _, _, _)
AddPayments(txs, created, user, tx_data, contact_id) ==
  IF created = << >> THEN txs
  ELSE AddPayments(
         Insert(txs, NewTx(NewId(txs), user, tx_data, contact_id,
                           Head(created).amount, Head(created).debt)),
         Tail(created), user, tx_data, contact_id)

\* the foreign keys of a transaction row hold in the tables given
ForeignKeysHold(tx, txs, cts) ==
  /\ tx.contact_id = NoId \/ tx.contact_id \in DOMAIN cts
  /\ tx.linked_transaction_id = NoId \/ tx.linked_transaction_id \in DOMAIN txs

Outcome(op, ok, user, tx_data, draft_id, created) ==
  [op |-> op, ok |-> ok, user_id |-> user, type |-> tx_data.type,
   amount |-> tx_data.amount, contact_name |-> tx_data.contact_name,
   contact_id |-> tx_data.contact_id,
   linked_transaction_id |-> tx_data.linked_transaction_id,
   draft_id |-> draft_id, created |-> created]

\* POST /transactions
create_transaction(tx_data, current_user) ==
  LET resolved == ResolveContact(current_user, tx_data.contact_name,
                                 tx_data.contact_id)
      contact_id == resolved.contact_id
      new_tx == OpenDebt(NewTx(NewId(transactions), current_user, tx_data,
                               contact_id, tx_data.amount,
                               tx_data.linked_transaction_id))
      walk == ApplyPayment(DebtsToApply(current_user, tx_data, contact_id),
                           tx_data.amount, transactions, << >>)
      paid == AddPayments(walk.transactions, walk.created, current_user,
                          tx_data, contact_id)
      fk_ok == ForeignKeysHold(new_tx, transactions, resolved.contacts)
      fk_paid == contact_id = NoId \/ contact_id \in DOMAIN resolved.contacts
      fail(cts) ==
        /\ transactions' = transactions
        /\ contacts' = cts
        /\ now' = now
        /\ last' = Outcome("create_transaction", FALSE, current_user, tx_data,
                           NoId, {})
      commit(txs) ==
        /\ transactions' = txs
        /\ contacts' = resolved.contacts
        /\ now' = now + 1
        /\ last' = Outcome("create_transaction", TRUE, current_user, tx_data,
                           NoId, DOMAIN txs \ DOMAIN transactions)
  IN  /\ now <= MaxRequests
      /\ UNCHANGED <<drafts, sessions>>
      /\ IF resolved.error THEN fail(contacts)
         ELSE IF tx_data.type \in PaymentTypes /\ walk.created # << >>
           \* one commit: contact, debt updates, payment records
           THEN IF fk_paid THEN commit(paid) ELSE fail(contacts)
         ELSE IF tx_data.type \in PaymentTypes
           \* the first commit keeps the contact; the second adds new_tx
           THEN IF fk_ok THEN commit(Insert(transactions, new_tx))
                ELSE fail(resolved.contacts)
         ELSE IF fk_ok THEN commit(Insert(transactions, new_tx))
              ELSE fail(contacts)

\* ---------------------------------------------------------------- drafts
\* POST /drafts
create_draft(draft_data, current_user) ==
  LET new_draft ==
        [id |-> NewId(drafts), user_id |-> current_user,
         amount |-> draft_data.amount, type |-> draft_data.type,
         account |-> draft_data.account,
         contact_name |-> draft_data.contact_name,
         contact_id |-> draft_data.contact_id,
         linked_transaction_id |-> draft_data.linked_transaction_id,
         status |-> "pending"]
      fk_ok == ForeignKeysHold(new_draft, transactions, contacts)
  IN  /\ Cardinality(DOMAIN drafts) < MaxDrafts
      /\ drafts' = IF fk_ok THEN Insert(drafts, new_draft) ELSE drafts
      /\ last' = Outcome("create_draft", fk_ok, current_user, draft_data,
                         IF fk_ok THEN new_draft.id ELSE NoId, {})
      /\ UNCHANGED <<transactions, contacts, now, sessions>>

\* faulty variant of SettleLinked: the walk of create_transaction, over the
\* linked transaction and then the open debts of the draft's contact
SettleLinked_Fifo(txs, user, draft) ==
  IF draft.type \in PaymentTypes
    THEN ApplyPayment(DebtsToApply(user, draft, draft.contact_id),
                      draft.amount, txs, << >>).transactions
    ELSE txs

\* "Handle payment linking" of confirm_draft: the draft's own linked
\* transaction, when it is the user's, takes min(draft.amount, remaining)
SettleLinked(txs, user, draft) ==
  LET linked == LinkedTx(user, draft.linked_transaction_id)
  IN  IF draft.type \in PaymentTypes /\ linked # << >>
        THEN LET d == Head(linked)
             IN  [txs EXCEPT ![d] =
                    Settle(txs[d],
                           ApplyAmount(draft.amount, CurrentRemaining(txs[d])))]
        ELSE txs

\* POST /drafts/{draft_id}/confirm
confirm_draft(draft_id, current_user) ==
  LET exists == draft_id \in DOMAIN drafts /\ drafts[draft_id].user_id = current_user
      draft == drafts[draft_id]
      resolved == ResolveContact(current_user, draft.contact_name, draft.contact_id)
      new_tx == OpenDebt(NewTx(NewId(transactions), current_user, draft,
                               resolved.contact_id, draft.amount,
                               draft.linked_transaction_id))
      fk_ok == ForeignKeysHold(new_tx, transactions, resolved.contacts)
      request == IF exists THEN draft
                 ELSE [type |-> "", amount |-> 0, contact_name |-> NoName,
                       contact_id |-> NoId, linked_transaction_id |-> NoId]
      fail ==
        /\ last' = Outcome("confirm_draft", FALSE, current_user, request,
                           draft_id, {})
        /\ UNCHANGED <<transactions, contacts, drafts, now, sessions>>
  IN  IF now > MaxRequests THEN FALSE
      ELSE IF ~exists THEN fail
      ELSE IF draft.status # "pending" THEN fail
      ELSE IF resolved.error \/ ~fk_ok THEN fail
      ELSE /\ transactions' =
                Insert(SettleLinked(transactions, current_user, draft), new_tx)
           /\ contacts' = resolved.contacts
           /\ drafts' = [drafts EXCEPT ![draft_id].status = "confirmed"]
           /\ now' = now + 1
           /\ last' = Outcome("confirm_draft", TRUE, current_user, draft,
                              draft_id, {new_tx.id})
           /\ UNCHANGED sessions

\* setattr(draft, field, value) for each field the update sets
Updated(draft, draft_update) ==
  [f \in DOMAIN draft |->
     IF f \in DOMAIN draft_update THEN draft_update[f] ELSE draft[f]]

\* the request an operation on a draft is recorded with
DraftRequest(draft_id, current_user) ==
  IF draft_id \in DOMAIN drafts /\ drafts[draft_id].user_id = current_user
    THEN drafts[draft_id]
    ELSE [type |-> "", amount |-> 0, contact_name |-> NoName,
          contact_id |-> NoId, linked_transaction_id |-> NoId]

\* faulty variant of update_draft: the status of the draft is not checked
update_draft_AnyStatus(draft_id, draft_update, current_user) ==
  LET exists == draft_id \in DOMAIN drafts /\ drafts[draft_id].user_id = current_user
      draft == drafts[draft_id]
      updated == Updated(draft, draft_update)
      ok == exists /\ ForeignKeysHold(updated, transactions, contacts)
  IN  /\ drafts' = IF ok THEN [drafts EXCEPT ![draft_id] = updated] ELSE drafts
      /\ last' = Outcome("update_draft", ok, current_user,
                         IF ok THEN updated
                         ELSE DraftRequest(draft_id, current_user),
                         draft_id, {})
      /\ UNCHANGED <<transactions, contacts, now, sessions>>

\* PATCH /drafts/{draft_id}
update_draft(draft_id, draft_update, current_user) ==
  LET exists == draft_id \in DOMAIN drafts /\ drafts[draft_id].user_id = current_user
      draft == drafts[draft_id]
      updated == Updated(draft, draft_update)
      ok == /\ exists
            /\ draft.status = "pending"
            /\ ForeignKeysHold(updated, transactions, contacts)
  IN  /\ drafts' = IF ok THEN [drafts EXCEPT ![draft_id] = updated] ELSE drafts
      /\ last' = Outcome("update_draft", ok, current_user,
                         IF ok THEN updated
                         ELSE DraftRequest(draft_id, current_user),
                         draft_id, {})
      /\ UNCHANGED <<transactions, contacts, now, sessions>>

\* POST /drafts/{draft_id}/discard
discard_draft(draft_id, current_user) ==
  LET exists == draft_id \in DOMAIN drafts /\ drafts[draft_id].user_id = current_user
      ok == exists /\ drafts[draft_id].status = "pending"
  IN  /\ drafts' = IF ok THEN [drafts EXCEPT ![draft_id].status = "discarded"]
                   ELSE drafts
      /\ last' = Outcome("discard_draft", ok, current_user,
                         DraftRequest(draft_id, current_user), draft_id, {})
      /\ UNCHANGED <<transactions, contacts, now, sessions>>

\* ------------------------------------------------------- contacts API
\* the request an operation on a contact is recorded with
ContactRequest(name, contact_id) ==
  [type |-> "", amount |-> 0, contact_name |-> name, contact_id |-> contact_id,
   linked_transaction_id |-> NoId]

\* POST /contacts: the contact is inserted, whatever contacts exist
create_contact(contact_data, current_user) ==
  LET new_contact == [id |-> NewId(contacts), user_id |-> current_user,
                      name |-> contact_data.name]
  IN  /\ Cardinality(DOMAIN contacts) < MaxContacts
      /\ contacts' = Insert(contacts, new_contact)
      /\ last' = Outcome("create_contact", TRUE, current_user,
                         ContactRequest(contact_data.name, NoId), NoId, {})
      /\ UNCHANGED <<transactions, drafts, now, sessions>>

\* ForeignKey("contacts.id", ondelete="SET NULL") on the rows of a table
ContactSetNull(table, contact_id) ==
  [i \in DOMAIN table |->
     IF table[i].contact_id = contact_id
       THEN [table[i] EXCEPT !.contact_id = NoId]
       ELSE table[i]]

\* DELETE /contacts/{contact_id}
delete_contact(contact_id, current_user) ==
  LET exists == /\ contact_id \in DOMAIN contacts
                /\ contacts[contact_id].user_id = current_user
  IN  /\ last' = Outcome("delete_contact", exists, current_user,
                         ContactRequest(NoName, contact_id), NoId, {})
      /\ IF exists
           THEN /\ contacts' = [c \in DOMAIN contacts \ {contact_id} |->
                                  contacts[c]]
                /\ transactions' = ContactSetNull(transactions, contact_id)
                /\ drafts' = ContactSetNull(drafts, contact_id)
           ELSE UNCHANGED <<transactions, contacts, drafts>>
      /\ UNCHANGED <<now, sessions>>

\* ------------------------------------------------------------- balances
\* faulty variant of AddToBalances: a loan moves credit or loan only, not
\* the account
AddToBalances_LoanOffAccount(balances, tx) ==
  LET amt == tx.amount
      acct == tx.account
  IN  CASE tx.type = "income" -> [balances EXCEPT ![acct] = @ + amt]
        [] tx.type = "expense" -> [balances EXCEPT ![acct] = @ - amt]
        [] tx.type = "credit_receivable" ->
             [balances EXCEPT !["credit"] = @ + amt]
        [] tx.type = "credit_payable" -> [balances EXCEPT !["loan"] = @ + amt]
        [] tx.type = "loan_receivable" ->
             [balances EXCEPT !["credit"] = @ + amt]
        [] tx.type = "loan_payable" -> [balances EXCEPT !["loan"] = @ + amt]
        [] tx.type = "payment_received" ->
             [[balances EXCEPT ![acct] = @ + amt] EXCEPT !["credit"] = @ - amt]
        [] tx.type = "payment_made" ->
             [[balances EXCEPT ![acct] = @ - amt] EXCEPT !["loan"] = @ - amt]
        [] tx.type = "transfer" -> [balances EXCEPT ![acct] = @ - amt]
        [] OTHER -> balances

\* the body of "for tx in transactions": the balances after tx
AddToBalances(balances, tx) ==
  LET amt == tx.amount
      acct == tx.account
  IN  CASE tx.type = "income" -> [balances EXCEPT ![acct] = @ + amt]
        [] tx.type = "expense" -> [balances EXCEPT ![acct] = @ - amt]
        [] tx.type = "credit_receivable" ->
             [balances EXCEPT !["credit"] = @ + amt]
        [] tx.type = "credit_payable" -> [balances EXCEPT !["loan"] = @ + amt]
        [] tx.type = "loan_receivable" ->
             [[balances EXCEPT ![acct] = @ - amt] EXCEPT !["credit"] = @ + amt]
        [] tx.type = "loan_payable" ->
             [[balances EXCEPT ![acct] = @ + amt] EXCEPT !["loan"] = @ + amt]
        [] tx.type = "payment_received" ->
             [[balances EXCEPT ![acct] = @ + amt] EXCEPT !["credit"] = @ - amt]
        [] tx.type = "payment_made" ->
             [[balances EXCEPT ![acct] = @ - amt] EXCEPT !["loan"] = @ - amt]
        [] tx.type = "transfer" -> [balances EXCEPT ![acct] = @ - amt]
        [] OTHER -> balances

\* balances = {"cash": 0.0, "bank": 0.0, "credit": 0.0, "loan": 0.0}
ZeroBalances == [cash |-> 0, bank |-> 0, credit |-> 0, loan |-> 0]

\* the single pass over the rows ids of txs, in the order of their ids
RECURSIVE Balances(_, _, _)
Balances(txs, ids, balances) ==
  IF ids = {} THEN balances
  ELSE LET t == CHOOSE x \in ids : \A y \in ids : x <= y
       IN  Balances(txs, ids \ {t}, AddToBalances(balances, txs[t]))

\* select(Transaction).where(Transaction.user_id == current_user.id)
TransactionsOf(user) ==
  {t \in DOMAIN transactions : transactions[t].user_id = user}

\* GET /transactions/balances
get_balances(current_user) ==
  /\ last' = [op |-> "get_balances", ok |-> TRUE, user_id |-> current_user,
              type |-> "", amount |-> 0, contact_name |-> NoName,
              contact_id |-> NoId, linked_transaction_id |-> NoId,
              draft_id |-> NoId, created |-> {},
              balances |-> Balances(transactions, TransactionsOf(current_user),
                                    ZeroBalances)]
  /\ UNCHANGED <<transactions, contacts, drafts, now, sessions>>

\* ---------------------------------------------------- payments in flight
\* Per debt the walk touched: the payment record to insert (debt, amount),
\* the remaining amount the walk read, and the values it assigned to the
\* debt object.
Pending(created, walked) ==
  [i \in DOMAIN created |->
     [debt |-> created[i].debt,
      amount |-> created[i].amount,
      read |-> CurrentRemaining(transactions[created[i].debt]),
      remaining_amount |-> walked[created[i].debt].remaining_amount,
      status |-> walked[created[i].debt].status]]

\* create_transaction for a payment, up to its commit: the contact lookup,
\* the fetch of the linked transaction, the FIFO query and the walk, all on
\* the rows committed so far.  Nothing is visible to other requests yet.
begin_payment(slot, tx_data, current_user) ==
  LET resolved == ResolveContact(current_user, tx_data.contact_name,
                                 tx_data.contact_id)
      walk == ApplyPayment(DebtsToApply(current_user, tx_data,
                                        resolved.contact_id),
                           tx_data.amount, transactions, << >>)
      session ==
        [id |-> slot, user_id |-> current_user, tx_data |-> tx_data,
         new_contact |-> resolved.contacts # contacts,
         contact_id |-> resolved.contact_id,
         pending |-> Pending(walk.created, walk.transactions)]
  IN  /\ slot \notin DOMAIN sessions
      /\ now + Cardinality(DOMAIN sessions) <= MaxRequests
      /\ IF resolved.error
           THEN /\ last' = Outcome("create_transaction", FALSE, current_user,
                                   tx_data, NoId, {})
                /\ UNCHANGED sessions
           ELSE /\ sessions' = Insert(sessions, session)
                /\ UNCHANGED last
      /\ UNCHANGED <<transactions, contacts, drafts, now>>

\* faulty variant of FlushContact: the name is looked up again at the insert
FlushContact_Unique(cts, session) ==
  LET found == {c \in DOMAIN cts :
                  /\ cts[c].user_id = session.user_id
                  /\ Lower(cts[c].name) = Lower(session.tx_data.contact_name)}
  IN  IF session.new_contact /\ found = {}
        THEN [contact_id |-> NewId(cts),
              contacts |-> Insert(cts, [id |-> NewId(cts),
                                        user_id |-> session.user_id,
                                        name |-> session.tx_data.contact_name])]
      ELSE IF session.new_contact
        THEN [contact_id |-> CHOOSE c \in found : TRUE, contacts |-> cts]
      ELSE [contact_id |-> session.contact_id, contacts |-> cts]

\* the INSERT of the contact the request created, made visible by its commit
FlushContact(cts, session) ==
  IF session.new_contact
    THEN [contact_id |-> NewId(cts),
          contacts |-> Insert(cts, [id |-> NewId(cts),
                                    user_id |-> session.user_id,
                                    name |-> session.tx_data.contact_name])]
    ELSE [contact_id |-> session.contact_id, contacts |-> cts]

\* faulty variant of WriteBack: the amount applied is taken off the value
\* the row holds at the write
WriteBack_Decrement(txs, pending) ==
  [d \in DOMAIN txs |->
     IF \E i \in DOMAIN pending : pending[i].debt = d
       THEN LET w == pending[CHOOSE i \in DOMAIN pending : pending[i].debt = d]
            IN  Settle(txs[d], w.amount)
       ELSE txs[d]]

\* the UPDATE of the debts the walk changed: remaining_amount and status
\* are set to the values the request computed from what it read
WriteBack(txs, pending) ==
  [d \in DOMAIN txs |->
     IF \E i \in DOMAIN pending : pending[i].debt = d
       THEN LET w == pending[CHOOSE i \in DOMAIN pending : pending[i].debt = d]
            IN  [txs[d] EXCEPT !.remaining_amount = w.remaining_amount,
                               !.status = w.status]
       ELSE txs[d]]

\* the commit of a payment in flight: its contact, its debt updates and its
\* payment records (or the standalone payment) reach the tables
commit_payment(slot) ==
  LET session == sessions[slot]
      tx_data == session.tx_data
      flushed == FlushContact(contacts, session)
      written == WriteBack(transactions, session.pending)
      paid == AddPayments(written, session.pending, session.user_id, tx_data,
                          flushed.contact_id)
      new_tx == NewTx(NewId(transactions), session.user_id, tx_data,
                      flushed.contact_id, tx_data.amount,
                      tx_data.linked_transaction_id)
      txs == IF session.pending # << >> THEN paid
             ELSE Insert(transactions, new_tx)
  IN  /\ transactions' = txs
      /\ contacts' = flushed.contacts
      /\ now' = now + 1
      /\ last' = Outcome("create_transaction", TRUE, session.user_id, tx_data,
                         NoId, DOMAIN txs \ DOMAIN transactions)
      /\ sessions' = [i \in DOMAIN sessions \ {slot} |-> sessions[i]]
      /\ UNCHANGED drafts

\* confirm_draft up to its commit: the fetch of the draft and the check of
\* its status, the contact lookup, the fetch of the linked transaction and
\* the amount computed for it, all on the rows committed so far.
begin_confirm(slot, draft_id, current_user) ==
  LET exists == draft_id \in DOMAIN drafts /\ drafts[draft_id].user_id = current_user
      draft == drafts[draft_id]
      resolved == ResolveContact(current_user, draft.contact_name, draft.contact_id)
      linked == LinkedTx(current_user, draft.linked_transaction_id)
      created ==
        IF draft.type \in PaymentTypes /\ linked # << >>
          THEN <<[debt |-> Head(linked),
                  amount |-> ApplyAmount(draft.amount,
                                         CurrentRemaining(transactions[Head(linked)]))]>>
          ELSE << >>
      session ==
        [id |-> slot, user_id |-> current_user, draft_id |-> draft_id,
         tx_data |-> draft, new_contact |-> resolved.contacts # contacts,
         contact_id |-> resolved.contact_id,
         pending |-> Pending(created,
                             SettleLinked(transactions, current_user, draft))]
      ok == exists /\ draft.status = "pending" /\ ~resolved.error
  IN  /\ slot \notin DOMAIN sessions
      /\ now + Cardinality(DOMAIN sessions) <= MaxRequests
      /\ IF ok
           THEN /\ sessions' = Insert(sessions, session)
                /\ UNCHANGED last
           ELSE /\ last' = Outcome("confirm_draft", FALSE, current_user,
                                   DraftRequest(draft_id, current_user),
                                   draft_id, {})
                /\ UNCHANGED sessions
      /\ UNCHANGED <<transactions, contacts, drafts, now>>

\* the commit of a confirmation in flight: its contact, the update of the
\* linked transaction, the new transaction and the draft's status reach the
\* tables
commit_confirm(slot) ==
  LET session == sessions[slot]
      draft == session.tx_data
      flushed == FlushContact(contacts, session)
      new_tx == OpenDebt(NewTx(NewId(transactions), session.user_id, draft,
                               flushed.contact_id, draft.amount,
                               draft.linked_transaction_id))
      fk_ok == ForeignKeysHold(new_tx, transactions, flushed.contacts)
  IN  /\ sessions' = [i \in DOMAIN sessions \ {slot} |-> sessions[i]]
      /\ last' = Outcome("confirm_draft", fk_ok, session.user_id, draft,
                         session.draft_id, IF fk_ok THEN {new_tx.id} ELSE {})
      /\ IF fk_ok
           THEN /\ transactions' =
                     Insert(WriteBack(transactions, session.pending), new_tx)
                /\ contacts' = flushed.contacts
                /\ drafts' = [drafts EXCEPT ![session.draft_id].status = "confirmed"]
                /\ now' = now + 1
           ELSE UNCHANGED <<transactions, contacts, drafts, now>>

\* ----------------------------------------------------- the requests drawn
Amounts == (0 - 1) .. MaxAmount

TxData(types, amounts, accounts, names, contact_ids, links) ==
  [type : types, amount : amounts, account : accounts, contact_name : names,
   contact_id : contact_ids, linked_transaction_id : links]

Links == {NoId} \cup DOMAIN transactions

\* no link, or the transaction stored last
NewestLink == {NoId, Cardinality(DOMAIN transactions)}

\* One user.  Debts of both directions are opened for the contacts Ana and
\* Bob.  Payments are received from Ana (with or without a linked
\* transaction), received from nobody named against a linked transaction,
\* and made to Ana without a link.
Users1 == {"u1"}

Openings(amounts) ==
  TxData({"credit_receivable", "loan_payable"}, amounts, {"cash"},
         {"Ana", "Bob"}, {NoId}, {NoId})

Payments(amounts) ==
  TxData({"payment_received"}, amounts, {"cash"}, {"Ana"}, {NoId}, Links)
  \cup TxData({"payment_received"}, amounts, {"cash"}, {NoName}, {NoId},
              DOMAIN transactions)
  \cup TxData({"payment_made"}, amounts, {"cash"}, {"Ana"}, {NoId}, {NoId})

\* drafts of payments received, linked to a transaction
DraftPayments(amounts) ==
  TxData({"payment_received"}, amounts, {"cash"}, {NoName}, {NoId},
         DOMAIN transactions)

CreateTransaction ==
  \E u \in Users1, tx_data \in Openings(Amounts) \cup Payments(Amounts) :
    create_transaction(tx_data, u)

CreateDraft ==
  \E u \in Users1, draft_data \in DraftPayments(Amounts) :
    create_draft(draft_data, u)

ConfirmDraft ==
  \E u \in Users1, d \in DOMAIN drafts : confirm_draft(d, u)

\* create_transaction, create_draft and confirm_draft, any amount
Next == CreateTransaction \/ CreateDraft \/ ConfirmDraft

Spec == Init /\ [][Next]_vars

\* create_transaction alone, any amount
SpecPayments == Init /\ [][CreateTransaction]_vars

\* the same three handlers, every amount positive
PositiveAmounts == 1 .. MaxAmount

CreateTransactionValid ==
  \E u \in Users1,
     tx_data \in Openings(PositiveAmounts) \cup Payments(PositiveAmounts) :
    create_transaction(tx_data, u)

CreateDraftValid ==
  \E u \in Users1, draft_data \in DraftPayments(PositiveAmounts) :
    create_draft(draft_data, u)

NextValid == CreateTransactionValid \/ CreateDraftValid \/ ConfirmDraft

SpecValid == Init /\ [][NextValid]_vars

\* debts opened with positive amounts; payments and drafts of any amount
CreateTransactionOwed ==
  \E u \in Users1,
     tx_data \in Openings(PositiveAmounts) \cup Payments(Amounts) :
    create_transaction(tx_data, u)

NextOwed == CreateTransactionOwed \/ CreateDraft \/ ConfirmDraft

SpecOwed == Init /\ [][NextOwed]_vars

\* Two users.  Each opens receivables for Ana and receives payments from Ana
\* or from nobody named; a payment may name any stored transaction, its own
\* or the other user's, as linked_transaction_id.
Users2 == {"u1", "u2"}

CreateTransactionUsers ==
  \E u \in Users2,
     tx_data \in TxData({"credit_receivable"}, PositiveAmounts, {"cash"},
                        {"Ana"}, {NoId}, {NoId})
                 \cup TxData({"payment_received"}, PositiveAmounts, {"cash"},
                             {"Ana", NoName}, {NoId}, Links) :
    create_transaction(tx_data, u)

SpecUsers == Init /\ [][CreateTransactionUsers]_vars

\* The amounts of the worked examples: receivables of 100 and 50 opened for
\* Ana, payments of 120 and 30 received from Ana, with or without a link.
CreateTransactionScenario ==
  \E u \in Users1,
     tx_data \in TxData({"credit_receivable"}, {100, 50}, {"cash"}, {"Ana"},
                        {NoId}, {NoId})
                 \cup TxData({"payment_received"}, {120, 30}, {"cash"},
                             {"Ana"}, {NoId}, Links) :
    create_transaction(tx_data, u)

SpecScenario == Init /\ [][CreateTransactionScenario]_vars

\* The life of a draft.  One user opens receivables of 1 for Ana directly,
\* and drafts receivables and payments received for "ana", linked or not to
\* the transaction stored last; a draft is updated (a larger amount, no link, or the
\* type of a payment), confirmed or discarded, whatever its status.
CreateTransactionLedger ==
  \E u \in Users1,
     tx_data \in TxData({"credit_receivable"}, {1}, {"cash"}, {"Ana"},
                        {NoId}, {NoId}) :
    create_transaction(tx_data, u)

CreateDraftLedger ==
  \E u \in Users1,
     draft_data \in TxData({"credit_receivable", "payment_received"},
                           PositiveAmounts, {"cash"}, {"ana"}, {NoId},
                           NewestLink) :
    create_draft(draft_data, u)

DraftUpdates ==
  {[amount |-> MaxAmount], [linked_transaction_id |-> NoId],
   [type |-> "payment_received"]}

UpdateDraft ==
  \E u \in Users1, d \in DOMAIN drafts, draft_update \in DraftUpdates :
    update_draft(d, draft_update, u)

DiscardDraft ==
  \E u \in Users1, d \in DOMAIN drafts : discard_draft(d, u)

NextDrafts ==
  \/ CreateTransactionLedger
  \/ CreateDraftLedger
  \/ UpdateDraft
  \/ ConfirmDraft
  \/ DiscardDraft

SpecDrafts == Init /\ [][NextDrafts]_vars

\* The identifier of no row (a UUID the tables do not hold).
UnknownId == 0 - 1

\* Two users and references that may not resolve.  Receivables are opened
\* for Ana; a payment or a payment draft may carry, as linked_transaction_id,
\* any stored transaction (its own or the other user's) or an unknown id,
\* and, as explicit contact_id, any stored contact or an unknown id.
AnyLink == {NoId, UnknownId} \cup DOMAIN transactions

AnyContact == {UnknownId} \cup DOMAIN contacts

Referring(types) ==
  TxData(types, {1}, {"cash"}, {"Ana"}, {NoId}, AnyLink)
  \cup TxData(types, {1}, {"cash"}, {NoName}, AnyContact, {NoId})

CreateTransactionRefs ==
  \E u \in Users2,
     tx_data \in TxData({"credit_receivable"}, {1}, {"cash"}, {"Ana"},
                        {NoId}, {NoId})
                 \cup Referring({"payment_received", "expense"}) :
    create_transaction(tx_data, u)

CreateDraftRefs ==
  \E u \in Users2, draft_data \in Referring({"payment_received"}) :
    create_draft(draft_data, u)

ConfirmDraftRefs ==
  \E u \in Users2, d \in DOMAIN drafts : confirm_draft(d, u)

NextRefs == CreateTransactionRefs \/ CreateDraftRefs \/ ConfirmDraftRefs

SpecRefs == Init /\ [][NextRefs]_vars

\* Payments served concurrently.  One user opens receivables for Ana, one
\* request at a time; payments received from "ana", linked or not to
\* the transaction stored last, are in flight together, up to MaxSessions
\* of them, and commit in any order.
Slots == 1 .. MaxSessions

CreateTransactionOpen ==
  \E u \in Users1,
     tx_data \in TxData({"credit_receivable"}, PositiveAmounts, {"cash"},
                        {"Ana"}, {NoId}, {NoId}) :
    create_transaction(tx_data, u)

\* the first free slot
FreeSlot ==
  {slot \in Slots \ DOMAIN sessions :
     \A k \in Slots : k < slot => k \in DOMAIN sessions}

BeginPayment ==
  \E slot \in FreeSlot, u \in Users1,
     tx_data \in TxData({"payment_received"}, PositiveAmounts, {"cash"},
                        {"ana"}, {NoId}, NewestLink) :
    begin_payment(slot, tx_data, u)

CommitPayment ==
  \E slot \in DOMAIN sessions : commit_payment(slot)

NextRace == CreateTransactionOpen \/ BeginPayment \/ CommitPayment

SpecRace == Init /\ [][NextRace]_vars

\* The books.  One user records transactions of every type, of 1 or of
\* MaxAmount in cash and of MaxAmount at the bank (a credit names no
\* account), with no contact and no link; a second user records income;
\* both ask for their balances at any time.
Bookings ==
  TxData(TransactionType, {1, MaxAmount}, {"cash"}, {NoName}, {NoId}, {NoId})
  \cup TxData(TransactionType \ {"credit_receivable", "credit_payable"},
              {MaxAmount}, {"bank"}, {NoName}, {NoId}, {NoId})

CreateTransactionBooked ==
  \E tx_data \in Bookings : create_transaction(tx_data, "u1")

CreateTransactionOther ==
  \E tx_data \in TxData({"income"}, {1}, {"cash"}, {NoName}, {NoId}, {NoId}) :
    create_transaction(tx_data, "u2")

GetBalances == \E u \in Users2 : get_balances(u)

NextBalances ==
  CreateTransactionBooked \/ CreateTransactionOther \/ GetBalances

SpecBalances == Init /\ [][NextBalances]_vars

\* Two users side by side.  Each opens receivables of MaxAmount for Ana and
\* receives payments of 1: from Ana, or from an explicit contact that may be
\* the other user's, linked or not to any stored transaction, the other
\* user's included.  Payment drafts linked to any stored transaction are
\* created and confirmed by either user.
CreateTransactionShared ==
  \E u \in Users2,
     tx_data \in TxData({"credit_receivable"}, {MaxAmount}, {"cash"}, {"Ana"},
                        {NoId}, {NoId})
                 \cup TxData({"payment_received"}, {1}, {"cash"}, {"Ana"},
                             {NoId}, Links)
                 \cup TxData({"payment_received"}, {1}, {"cash"}, {NoName},
                             DOMAIN contacts, Links) :
    create_transaction(tx_data, u)

CreateDraftShared ==
  \E u \in Users2,
     draft_data \in TxData({"payment_received"}, {1}, {"cash"}, {"Ana"},
                           {NoId}, DOMAIN transactions) :
    create_draft(draft_data, u)

NextShared == CreateTransactionShared \/ CreateDraftShared \/ ConfirmDraftRefs

SpecShared == Init /\ [][NextShared]_vars

\* Both directions.  One user opens receivables and payables, of 1 or of
\* MaxAmount, for Ana and for Bob, and receives payments from "ana" and makes
\* payments to "ana", of 1 or of MaxAmount, linked or not to any stored
\* transaction.
CreateTransactionDirected ==
  \E u \in Users1,
     tx_data \in TxData({"credit_receivable", "loan_payable"}, {1, MaxAmount},
                        {"cash"}, {"Ana", "Bob"}, {NoId}, {NoId})
                 \cup TxData(PaymentTypes, {1, MaxAmount}, {"cash"}, {"ana"},
                             {NoId}, Links) :
    create_transaction(tx_data, u)

SpecDirected == Init /\ [][CreateTransactionDirected]_vars

\* The same requests, and the user's balances asked for at any time.
GetBalancesOwn == \E u \in Users1 : get_balances(u)

NextAccounts == CreateTransactionDirected \/ GetBalancesOwn

SpecAccounts == Init /\ [][NextAccounts]_vars

\* Contacts managed by hand.  One user opens receivables of MaxAmount for
\* Ana and receives payments from "ana" without a link; contacts named "Ana"
\* are created through the contacts API, up to MaxContacts rows, and any
\* stored contact is deleted.
CreateTransactionNamed ==
  \E u \in Users1,
     tx_data \in TxData({"credit_receivable"}, {MaxAmount}, {"cash"}, {"Ana"},
                        {NoId}, {NoId})
                 \cup TxData({"payment_received"}, PositiveAmounts, {"cash"},
                             {"ana"}, {NoId}, {NoId}) :
    create_transaction(tx_data, u)

CreateContact ==
  \E u \in Users1, contact_data \in [name : {"Ana"}] :
    create_contact(contact_data, u)

DeleteContact ==
  \E u \in Users1, c \in DOMAIN contacts : delete_contact(c, u)

NextContacts == CreateTransactionNamed \/ CreateContact \/ DeleteContact

SpecContacts == Init /\ [][NextContacts]_vars

\* Confirmations served concurrently.  One user opens receivables of 1 for
\* Ana and drafts receivables and payments received for "ana", linked or not
\* to the transaction stored last; confirmations of any draft are in flight
\* together, up to MaxSessions of them, and commit in any order.
BeginConfirm ==
  \E slot \in FreeSlot, u \in Users1, d \in DOMAIN drafts :
    begin_confirm(slot, d, u)

CommitConfirm ==
  \E slot \in DOMAIN sessions : commit_confirm(slot)

NextConfirmRace ==
  \/ CreateTransactionLedger
  \/ CreateDraftLedger
  \/ BeginConfirm
  \/ CommitConfirm

SpecConfirmRace == Init /\ [][NextConfirmRace]_vars

\* ======================================================================
\* Properties
\* ======================================================================
IsDebt(tx) == tx.type \in OpeningTypes

RemainingOf(tx) ==
  IF tx.remaining_amount = NoAmount THEN tx.amount ELSE Val(tx.remaining_amount)

\* the request served last was a payment, and it committed
PaymentCommitted ==
  /\ last.op \in {"create_transaction", "confirm_draft"}
  /\ last.ok
  /\ last.type \in PaymentTypes

\* the request served last was a payment submitted through create_transaction
PaymentSubmitted ==
  last.op = "create_transaction" /\ last.type \in PaymentTypes

\* the debts a payment request is a candidate for, read off the claim: the
\* user's own linked transaction, and the user's unsettled debts of the
\* payment's direction that carry the payment's contact name
Direction(type) ==
  IF type = "payment_received"
    THEN {"credit_receivable", "loan_receivable"}
    ELSE {"credit_payable", "loan_payable"}

ContactDebts(req) ==
  {d \in DOMAIN transactions :
     /\ transactions[d].user_id = req.user_id
     /\ transactions[d].type \in Direction(req.type)
     /\ transactions[d].status \in {"open", "partial"}
     /\ req.contact_name # NoName
     /\ transactions[d].contact_name # NoName
     /\ Lower(transactions[d].contact_name) = Lower(req.contact_name)}

OwnLinked(req) ==
  {d \in DOMAIN transactions :
     /\ d = req.linked_transaction_id
     /\ transactions[d].user_id = req.user_id}

Candidates(req) == OwnLinked(req) \cup ContactDebts(req)

RECURSIVE SumRemaining(_)
SumRemaining(ids) ==
  IF ids = {} THEN 0
  ELSE LET d == CHOOSE x \in ids : TRUE
       IN  RemainingOf(transactions[d]) + SumRemaining(ids \ {d})

RECURSIVE SumCreated(_, _)
SumCreated(txs, ids) ==
  IF ids = {} THEN 0
  ELSE LET r == CHOOSE x \in ids : TRUE
       IN  txs[r].amount + SumCreated(txs, ids \ {r})

\* C1: across payment applications made through create_transaction and
\* confirm_draft, the remaining_amount of a debt-opening transaction never
\* increases from one state to the next and is never negative.
C1_RemainingNeverIncreases ==
  [][PaymentCommitted' =>
       \A d \in DOMAIN transactions :
         IsDebt(transactions[d]) =>
           /\ RemainingOf(transactions'[d]) <= RemainingOf(transactions[d])
           /\ RemainingOf(transactions'[d]) >= 0]_vars

\* C2: after every settlement operation every debt-opening transaction of
\* the user has status settled if and only if its remaining_amount is 0.
C2_SettledIffNothingRemains ==
  PaymentCommitted =>
    \A d \in DOMAIN transactions :
      (IsDebt(transactions[d]) /\ transactions[d].user_id = last.user_id) =>
        (transactions[d].status = "settled" <=> RemainingOf(transactions[d]) = 0)

\* C3: a payment application leaves a debt partial only when
\* 0 < remaining_amount < amount afterwards, and a debt whose
\* remaining_amount still equals its amount keeps status open.
C3_PartialOnlyStrictlyBetween ==
  [][PaymentCommitted' =>
       \A d \in DOMAIN transactions :
         IsDebt(transactions[d]) =>
           /\ (transactions'[d] # transactions[d]
               /\ transactions'[d].status = "partial")
                => /\ 0 < RemainingOf(transactions'[d])
                   /\ RemainingOf(transactions'[d]) < transactions[d].amount
           /\ (transactions[d].status = "open"
               /\ RemainingOf(transactions'[d]) = transactions[d].amount)
                => transactions'[d].status = "open"]_vars

\* C4: debt status never reverses under settlement: a settled debt stays
\* settled and a partial debt never returns to open.
C4_StatusNeverReverses ==
  [][\A d \in DOMAIN transactions :
       IsDebt(transactions[d]) =>
         /\ transactions[d].status = "settled"
              => transactions'[d].status = "settled"
         /\ transactions[d].status = "partial"
              => transactions'[d].status # "open"]_vars

\* C5: FIFO allocation.  A payment submitted through create_transaction
\* with a contact and no linked_transaction_id consumes the open debts of
\* that contact and direction oldest first: a debt is changed only if every
\* older candidate debt ends the operation settled with nothing remaining.
C5_FifoOldestFirst ==
  [][(/\ PaymentSubmitted'
      /\ last'.ok
      /\ last'.contact_name # NoName
      /\ last'.linked_transaction_id = NoId) =>
       \A d \in ContactDebts(last'), e \in ContactDebts(last') :
         (/\ transactions[e].date < transactions[d].date
          /\ transactions'[d] # transactions[d])
           => /\ RemainingOf(transactions'[e]) = 0
              /\ transactions'[e].status = "settled"]_vars

\* a payment without a link has settled the older debt of its contact and
\* left the newer one partial, with one payment record for each
C5_Witness ==
  /\ PaymentSubmitted
  /\ last.ok
  /\ last.contact_name # NoName
  /\ last.linked_transaction_id = NoId
  /\ \E r1 \in last.created, r2 \in last.created :
       LET d1 == transactions[r1].linked_transaction_id
           d2 == transactions[r2].linked_transaction_id
       IN  /\ d1 # NoId /\ d2 # NoId
           /\ transactions[d1].date < transactions[d2].date
           /\ transactions[d1].status = "settled"
           /\ transactions[d2].status = "partial"

\* the two untouched receivables of the worked example: D1 of 100, then D2
\* of 50, the only unsettled debts
ScenarioDebts(d1, d2) ==
  /\ {d1, d2} \subseteq DOMAIN transactions
  /\ transactions[d1].date < transactions[d2].date
  /\ \A d \in {d1, d2} :
       /\ transactions[d].type = "credit_receivable"
       /\ transactions[d].contact_name = "Ana"
       /\ transactions[d].status = "open"
       /\ transactions[d].remaining_amount = {transactions[d].amount}
  /\ transactions[d1].amount = 100
  /\ transactions[d2].amount = 50
  /\ \A d \in DOMAIN transactions \ {d1, d2} :
       IsDebt(transactions[d]) => transactions[d].status = "settled"

ScenarioPayment(req, amount, link) ==
  /\ req.op = "create_transaction"
  /\ req.type = "payment_received"
  /\ req.contact_name = "Ana"
  /\ req.amount = amount
  /\ req.linked_transaction_id = link

\* the payment records created are exactly one of amount a1 linked to d1
\* and one of amount a2 linked to d2
TwoRecords(txs, created, d1, a1, d2, a2) ==
  \E r1 \in created, r2 \in created :
    /\ created = {r1, r2}
    /\ r1 # r2
    /\ txs[r1].linked_transaction_id = d1 /\ txs[r1].amount = a1
    /\ txs[r2].linked_transaction_id = d2 /\ txs[r2].amount = a2
    /\ \A r \in created : txs[r].type = "payment_received"

ScenarioOutcome(d1, d2, left) ==
  /\ last'.ok
  /\ transactions'[d1].remaining_amount = {0}
  /\ transactions'[d1].status = "settled"
  /\ transactions'[d2].remaining_amount = {left}
  /\ transactions'[d2].status = "partial"
  /\ TwoRecords(transactions', last'.created, d1, 100, d2, 20)

\* C6 as amended: with D1 (100, older) and D2 (50) open for Ana, a
\* payment_received of 120 without a link settles D1 at 0, leaves D2 partial
\* at 30, and creates two payment records, 100 linked to D1 and 20 to D2.
C6_FifoScenario ==
  [][\A d1 \in DOMAIN transactions, d2 \in DOMAIN transactions :
       (ScenarioDebts(d1, d2) /\ ScenarioPayment(last', 120, NoId))
         => ScenarioOutcome(d1, d2, 30)]_vars

\* C6 as claimed: the same payment leaves D2 at 70.
C6_FifoScenarioAsClaimed ==
  [][\A d1 \in DOMAIN transactions, d2 \in DOMAIN transactions :
       (ScenarioDebts(d1, d2) /\ ScenarioPayment(last', 120, NoId))
         => ScenarioOutcome(d1, d2, 70)]_vars

\* the payment of 120 was served with D1 = 100 and D2 = 50 open
C6_Witness ==
  /\ ScenarioPayment(last, 120, NoId)
  /\ last.ok
  /\ \E d1 \in DOMAIN transactions, d2 \in DOMAIN transactions :
       /\ transactions[d1].amount = 100 /\ transactions[d2].amount = 50
       /\ transactions[d1].date < transactions[d2].date
       /\ IsDebt(transactions[d1]) /\ IsDebt(transactions[d2])
       /\ TwoRecords(transactions, last.created, d1, 100, d2, 20)

\* C7: explicit link priority.  A payment submitted through
\* create_transaction whose linked_transaction_id names a transaction of
\* the same user is applied to that transaction first: a positive payment
\* takes min(amount, remaining) off it and records it; another transaction
\* is changed only if the linked one ends with nothing remaining; and a
\* payment not exceeding the linked remaining amount changes no other
\* transaction, not even an older debt of the same contact.
C7_LinkedDebtFirst ==
  [][(PaymentSubmitted' /\ last'.ok /\ OwnLinked(last') # {}) =>
       LET l == last'.linked_transaction_id
           others == DOMAIN transactions \ {l}
           before == RemainingOf(transactions[l])
           applied == IF last'.amount <= before THEN last'.amount ELSE before
       IN  /\ \A d \in others :
                transactions'[d] # transactions[d]
                  => /\ RemainingOf(transactions'[l]) = 0
                     /\ transactions'[l].status = "settled"
           /\ last'.amount <= before =>
                \A d \in others : transactions'[d] = transactions[d]
           /\ last'.amount > 0 =>
                /\ transactions'[l].remaining_amount = {before - applied}
                /\ \E r \in last'.created :
                     /\ transactions'[r].linked_transaction_id = l
                     /\ transactions'[r].amount = applied]_vars

\* a payment linked to the newer of two debts of its contact left that debt
\* partial and the older one open and untouched
C7_Witness ==
  /\ PaymentSubmitted
  /\ last.ok
  /\ last.contact_name # NoName
  /\ OwnLinked(last) # {}
  /\ LET l == last.linked_transaction_id
     IN  /\ IsDebt(transactions[l])
         /\ transactions[l].status = "partial"
         /\ \E d \in DOMAIN transactions :
              /\ transactions[d].date < transactions[l].date
              /\ transactions[d].type = transactions[l].type
              /\ transactions[d].contact_name = last.contact_name
              /\ transactions[l].contact_name = last.contact_name
              /\ transactions[d].status = "open"
              /\ transactions[d].remaining_amount = {transactions[d].amount}
              /\ transactions[d].amount > 0

\* C8: every payment transaction that carries a linked_transaction_id,
\* created by create_transaction or by confirm_draft, has an amount equal to
\* the amount by which that operation reduced the remaining_amount of the
\* linked debt.
C8_AmountIsPortionApplied ==
  [][PaymentCommitted' =>
       \A r \in last'.created :
         LET l == transactions'[r].linked_transaction_id
         IN  l # NoId =>
               /\ l \in DOMAIN transactions
               /\ transactions'[r].amount =
                    RemainingOf(transactions[l]) - RemainingOf(transactions'[l])]_vars

\* C9: a payment submitted through create_transaction that finds no debt to
\* apply against (no candidate) persists exactly one payment transaction,
\* carrying the full amount and no linked_transaction_id, and modifies no
\* stored transaction.
C9_NoDebtFallback ==
  [][(PaymentSubmitted' /\ Candidates(last') = {}) =>
       /\ last'.ok
       /\ Cardinality(last'.created) = 1
       /\ DOMAIN transactions' = DOMAIN transactions \cup last'.created
       /\ \A r \in last'.created :
            /\ transactions'[r].amount = last'.amount
            /\ transactions'[r].linked_transaction_id = NoId
       /\ \A d \in DOMAIN transactions : transactions'[d] = transactions[d]]_vars

\* C10: a create_transaction payment whose amount exceeds the total
\* remaining amount of its candidate debts (at least one) leaves every
\* candidate settled, creates payment records whose amounts sum to that
\* total, each linked to a candidate, and records the excess nowhere.
C10_OverpaymentDropped ==
  [][(/\ PaymentSubmitted'
      /\ Candidates(last') # {}
      /\ last'.amount > SumRemaining(Candidates(last'))) =>
       /\ last'.ok
       /\ \A d \in Candidates(last') :
            /\ transactions'[d].status = "settled"
            /\ RemainingOf(transactions'[d]) = 0
       /\ SumCreated(transactions', last'.created)
            = SumRemaining(Candidates(last'))
       /\ \A r \in last'.created :
            transactions'[r].linked_transaction_id \in Candidates(last')]_vars

\* the tables a request can change
Stored == <<transactions, contacts, drafts>>

\* C11: atomicity of a settlement request.  A payment submitted through
\* create_transaction that fails leaves nothing of itself persisted: no
\* contact, no debt change, no payment record.
C11_FailedPaymentLeavesNothing ==
  [][(PaymentSubmitted' /\ ~last'.ok) => Stored' = Stored]_vars

\* the linked_transaction_id of a request names no transaction of its user
LinkNotFound(req) ==
  /\ req.linked_transaction_id # NoId
  /\ \/ req.linked_transaction_id \notin DOMAIN transactions
     \/ transactions[req.linked_transaction_id].user_id # req.user_id

\* C12: NotFound for the linked debt.  A payment served by
\* create_transaction or confirm_draft whose linked_transaction_id names a
\* transaction that does not exist or belongs to another user fails, and
\* changes no transaction, contact or draft.
C12_LinkNotFoundAborts ==
  [][(/\ last'.op \in {"create_transaction", "confirm_draft"}
      /\ last'.type \in PaymentTypes
      /\ LinkNotFound(last')) =>
       (~last'.ok /\ Stored' = Stored)]_vars

\* the explicit contact_id of a request names no contact of its user
ContactNotFound(req) ==
  /\ req.contact_id # NoId
  /\ \/ req.contact_id \notin DOMAIN contacts
     \/ contacts[req.contact_id].user_id # req.user_id

\* every stored transaction's contact is a contact of its own user
ContactsOwned(txs, cts) ==
  \A t \in DOMAIN txs :
    txs[t].contact_id # NoId =>
      /\ txs[t].contact_id \in DOMAIN cts
      /\ cts[txs[t].contact_id].user_id = txs[t].user_id

\* C13: NotFound for the contact.  create_transaction or confirm_draft
\* given an explicit contact_id that does not exist or belongs to another
\* user fails and persists nothing, so that every stored transaction's
\* contact_id refers to a contact of the transaction's own user.
C13_ContactNotFoundAborts ==
  [][/\ (/\ last'.op \in {"create_transaction", "confirm_draft"}
         /\ ContactNotFound(last')) =>
          (~last'.ok /\ Stored' = Stored)
     /\ ContactsOwned(transactions', contacts')]_vars

\* C14: InvalidAmount.  A payment served by create_transaction or
\* confirm_draft with amount <= 0 is rejected before any mutation: no
\* transaction or contact is created, no debt changes, the draft stays
\* pending.
C14_NonPositivePaymentRejected ==
  [][(/\ last'.op \in {"create_transaction", "confirm_draft"}
      /\ last'.type \in PaymentTypes
      /\ last'.amount <= 0) =>
       (~last'.ok /\ Stored' = Stored)]_vars

\* the request served last created a transaction, directly or from a draft
Recorded(req) == req.op \in {"create_transaction", "confirm_draft"} /\ req.ok

\* C15: a debt-opening transaction created by create_transaction or by
\* confirm_draft is persisted with status open and remaining_amount equal
\* to its amount, and creating it modifies no other transaction.
C15_DebtOpensWhole ==
  [][(Recorded(last') /\ last'.type \in OpeningTypes) =>
       /\ \E r \in DOMAIN transactions' :
            /\ last'.created = {r}
            /\ DOMAIN transactions' = DOMAIN transactions \cup {r}
            /\ transactions'[r].type = last'.type
            /\ transactions'[r].amount = last'.amount
            /\ transactions'[r].status = "open"
            /\ transactions'[r].remaining_amount = {last'.amount}
       /\ \A d \in DOMAIN transactions : transactions'[d] = transactions[d]]_vars

\* a confirmed draft opened a debt that names an unsettled debt as its
\* linked transaction
C15_Witness ==
  /\ last.op = "confirm_draft"
  /\ last.ok
  /\ last.type \in OpeningTypes
  /\ last.linked_transaction_id \in DOMAIN transactions
  /\ transactions[last.linked_transaction_id].status = "open"
  /\ \E r \in last.created :
       /\ transactions[r].status = "open"
       /\ transactions[r].remaining_amount = {last.amount}

\* the contacts of a user whose name equals a name ignoring case
NamedIn(cts, user, name) ==
  {c \in DOMAIN cts :
     /\ cts[c].user_id = user
     /\ (cts[c].name \in {"Ana", "ana"}) = (name \in {"Ana", "ana"})
     /\ name \notin {"Ana", "ana"} => cts[c].name = name}

\* C16: idempotent contact resolution.  Every resolution of a name N with
\* no explicit contact_id (create_transaction or confirm_draft) leaves the
\* user with exactly one contact named N ignoring case; when one existed
\* already no contact is created, and the transaction gets that contact's
\* identifier.  Two sequential resolutions therefore create one row, and
\* the second returns the identifier created by the first.
C16_ResolveOnce ==
  [][(/\ Recorded(last')
      /\ last'.contact_name # NoName
      /\ last'.contact_id = NoId) =>
       LET before == NamedIn(contacts, last'.user_id, last'.contact_name)
           after == NamedIn(contacts', last'.user_id, last'.contact_name)
       IN  /\ Cardinality(after) = 1
           /\ before # {} => contacts' = contacts
           /\ before = {} => Cardinality(DOMAIN contacts') =
                               Cardinality(DOMAIN contacts) + 1
           /\ \A r \in last'.created : transactions'[r].contact_id \in after]_vars

\* a draft for "ana" was confirmed when the contact "Ana" existed, and its
\* transaction carries that contact
C16_Witness ==
  /\ last.op = "confirm_draft"
  /\ last.ok
  /\ last.contact_name = "ana"
  /\ \E c \in DOMAIN contacts :
       /\ DOMAIN contacts = {c}
       /\ contacts[c].name = "Ana"
       /\ \A r \in last.created : transactions[r].contact_id = c
  /\ \E t \in DOMAIN transactions : transactions[t].contact_name = "Ana"

\* C17: confirming a payment draft produces exactly one transaction, marks
\* the draft confirmed in the same step, and changes at most one stored
\* transaction: the draft's own linked transaction, whose remaining amount
\* drops by min(draft.amount, current remaining).  No other debt of the
\* contact is touched.
C17_DraftSettlesOneDebt ==
  [][(/\ last'.op = "confirm_draft"
      /\ last'.ok
      /\ last'.type \in PaymentTypes) =>
       LET own == OwnLinked(last')
       IN  /\ Cardinality(last'.created) = 1
           /\ DOMAIN transactions' = DOMAIN transactions \cup last'.created
           /\ drafts[last'.draft_id].status = "pending"
           /\ drafts'[last'.draft_id].status = "confirmed"
           /\ \A d \in DOMAIN transactions \ own :
                transactions'[d] = transactions[d]
           /\ \A d \in own :
                LET before == RemainingOf(transactions[d])
                    apply == IF last'.amount <= before THEN last'.amount
                             ELSE before
                IN  transactions'[d].remaining_amount = {before - apply}]_vars

\* a confirmed payment draft for "ana" overpaid its linked debt and left an
\* older open debt of Ana whole
C17_Witness ==
  /\ last.op = "confirm_draft"
  /\ last.ok
  /\ last.type \in PaymentTypes
  /\ last.contact_name = "ana"
  /\ last.linked_transaction_id \in DOMAIN transactions
  /\ LET l == last.linked_transaction_id
     IN  /\ transactions[l].status = "settled"
         /\ last.amount > transactions[l].amount
         /\ \E d \in DOMAIN transactions :
              /\ transactions[d].date < transactions[l].date
              /\ transactions[d].type = "credit_receivable"
              /\ transactions[d].contact_name = "Ana"
              /\ transactions[d].status = "open"
              /\ transactions[d].remaining_amount = {transactions[d].amount}

\* C18: draft lifecycle.  A draft is created pending; update_draft,
\* confirm_draft and discard_draft succeed only on a pending draft, and on
\* a confirmed or discarded draft they fail and change no draft,
\* transaction or contact; a confirmed or discarded draft is never changed
\* by these operations.
C18_DraftLifecycle ==
  [][/\ \A d \in DOMAIN drafts' \ DOMAIN drafts : drafts'[d].status = "pending"
     /\ \A d \in DOMAIN drafts :
          /\ d \in DOMAIN drafts'
          /\ drafts[d].status \in {"confirmed", "discarded"} =>
               drafts'[d] = drafts[d]
     /\ (/\ last'.op \in {"update_draft", "confirm_draft", "discard_draft"}
         /\ last'.draft_id \in DOMAIN drafts) =>
          /\ last'.ok => drafts[last'.draft_id].status = "pending"
          /\ drafts[last'.draft_id].status # "pending" =>
               (~last'.ok /\ Stored' = Stored)]_vars

\* an update of a confirmed draft was refused
C18_Witness ==
  /\ last.op = "update_draft"
  /\ ~last.ok
  /\ last.draft_id \in DOMAIN drafts
  /\ drafts[last.draft_id].status = "confirmed"
  /\ \E t \in DOMAIN transactions :
       transactions[t].amount = drafts[last.draft_id].amount

\* the session whose commit this step is
Committing(slot) == slot \in DOMAIN sessions /\ slot \notin DOMAIN sessions'

\* the payment records linked to a debt, and the sum of their amounts
RecordsOf(txs, d) ==
  {r \in DOMAIN txs :
     txs[r].type \in PaymentTypes /\ txs[r].linked_transaction_id = d}

Paid(txs, d) == SumCreated(txs, RecordsOf(txs, d))

\* what the payment records of a debt say was paid beyond what the debt
\* itself says: amount minus remaining_amount
Over(txs, d) == Paid(txs, d) - (txs[d].amount - RemainingOf(txs[d]))

\* C19: lost update on a debt.  The commit of a payment writes to every
\* debt it touched the remaining amount computed from the value it read,
\* whatever the row holds by then: when another payment was committed in
\* between, that payment's reduction is overwritten while its record stays,
\* and the records of the debt exceed amount - remaining_amount by the
\* difference.
C19_StaleWriteOverwrites ==
  [][\A slot \in DOMAIN sessions :
       Committing(slot) =>
         \A i \in DOMAIN sessions[slot].pending :
           LET w == sessions[slot].pending[i]
           IN  /\ RemainingOf(transactions'[w.debt]) = w.read - w.amount
               /\ Over(transactions', w.debt) =
                    Over(transactions, w.debt)
                      + (w.read - RemainingOf(transactions[w.debt]))]_vars

\* every request has committed, and the payment records linked to a debt
\* sum to more than the debt's amount minus its remaining amount
C19_Witness ==
  /\ sessions = << >>
  /\ \E d \in DOMAIN transactions :
       /\ IsDebt(transactions[d])
       /\ Cardinality(RecordsOf(transactions, d)) = 2
       /\ Paid(transactions, d) >
            transactions[d].amount - RemainingOf(transactions[d])

\* C20: duplicate contact.  The commit of a request that found no contact
\* of its name inserts one, whatever the table holds by then: when another
\* request inserted the name in between, the user ends with two contacts
\* whose names are equal ignoring case.
C20_InsertWithoutRecheck ==
  [][\A slot \in DOMAIN sessions :
       (Committing(slot) /\ sessions[slot].new_contact) =>
         LET user == sessions[slot].user_id
             name == sessions[slot].tx_data.contact_name
         IN  Cardinality(NamedIn(contacts', user, name)) =
               Cardinality(NamedIn(contacts, user, name)) + 1]_vars

\* two contacts of one user with names equal ignoring case
C20_Witness ==
  \E c1 \in DOMAIN contacts, c2 \in DOMAIN contacts :
    /\ c1 # c2
    /\ contacts[c1].user_id = contacts[c2].user_id
    /\ c2 \in NamedIn(contacts, contacts[c1].user_id, contacts[c1].name)

\* the user's rows of the types given, booked on the accounts given
Booked(user, types, accounts) ==
  {t \in DOMAIN transactions :
     /\ transactions[t].user_id = user
     /\ transactions[t].type \in types
     /\ transactions[t].account \in accounts}

\* what flows into an account less what flows out of it
AccountTotal(user, acct) ==
  SumCreated(transactions,
             Booked(user, {"income", "loan_payable", "payment_received"},
                    {acct}))
  - SumCreated(transactions,
               Booked(user, {"expense", "transfer", "loan_receivable",
                             "payment_made"}, {acct}))

CreditTotal(user) ==
  SumCreated(transactions,
             Booked(user, {"credit_receivable", "loan_receivable"}, AccountType))
  - SumCreated(transactions, Booked(user, {"payment_received"}, AccountType))

LoanTotal(user) ==
  SumCreated(transactions,
             Booked(user, {"credit_payable", "loan_payable"}, AccountType))
  - SumCreated(transactions, Booked(user, {"payment_made"}, AccountType))

\* income 100 cash, expense 30 cash, credit_receivable 50, payment_received
\* 50 cash
BalanceScenario ==
  <<[type |-> "income", amount |-> 100, account |-> "cash"],
    [type |-> "expense", amount |-> 30, account |-> "cash"],
    [type |-> "credit_receivable", amount |-> 50, account |-> "cash"],
    [type |-> "payment_received", amount |-> 50, account |-> "cash"]>>

\* C21: get_balances returns, for the user's transactions, the totals the
\* per-type rules give from zero: income into the account; expense and
\* transfer out of it; credit_receivable onto credit; credit_payable onto
\* loan; loan_receivable out of the account and onto credit; loan_payable
\* into the account and onto loan; payment_received into the account and
\* off credit; payment_made out of the account and off loan.  The four
\* transactions of the balance scenario give cash 120 and credit 0.  The
\* request changes no stored row.
C21_BalancesAreTheFold ==
  [][last'.op = "get_balances" =>
       /\ last'.balances =
            [cash |-> AccountTotal(last'.user_id, "cash"),
             bank |-> AccountTotal(last'.user_id, "bank"),
             credit |-> CreditTotal(last'.user_id),
             loan |-> LoanTotal(last'.user_id)]
       /\ Stored' = Stored
       /\ Balances(BalanceScenario, DOMAIN BalanceScenario, ZeroBalances) =
            [cash |-> 120, bank |-> 0, credit |-> 0, loan |-> 0]]_vars

\* balances were returned to a user with loans on both accounts, while the
\* other user has transactions of their own
C21_Witness ==
  /\ last.op = "get_balances"
  /\ last.balances.cash # 0 /\ last.balances.bank # 0
  /\ last.balances.credit # 0 /\ last.balances.loan # 0
  /\ \E t \in DOMAIN transactions : transactions[t].user_id # last.user_id

\* C22: user isolation of settlement.  A create_transaction or
\* confirm_draft request of a user never changes remaining_amount or status
\* of a transaction owned by another user, whatever linked_transaction_id,
\* contact_id or contact_name it carries.
C22_SettlesOwnDebtsOnly ==
  [][last'.op \in {"create_transaction", "confirm_draft"} =>
       \A d \in DOMAIN transactions :
         transactions[d].user_id # last'.user_id =>
           /\ transactions'[d].remaining_amount = transactions[d].remaining_amount
           /\ transactions'[d].status = transactions[d].status]_vars

\* a payment linked to another user's unsettled debt was recorded against a
\* debt of the payer instead
C22_Witness ==
  /\ last.op = "create_transaction"
  /\ last.ok
  /\ last.type \in PaymentTypes
  /\ last.linked_transaction_id \in DOMAIN transactions
  /\ LET l == transactions[last.linked_transaction_id]
     IN  /\ l.user_id # last.user_id
         /\ IsDebt(l)
         /\ l.status = "open"
  /\ \E r \in last.created :
       /\ transactions[r].linked_transaction_id \in DOMAIN transactions
       /\ transactions[transactions[r].linked_transaction_id].user_id
            = last.user_id

\* the transaction a created record is linked to
LinkOf(txs, r) == txs[r].linked_transaction_id

\* C23: within one create_transaction payment request no entry appears
\* twice in the candidate list (the explicitly linked transaction is
\* excluded from the FIFO query): the records created are linked to
\* distinct transactions, and every transaction the request changed has
\* exactly one record, whose amount is what was taken off it, once.
C23_OneRecordPerDebt ==
  [][(PaymentSubmitted' /\ last'.ok) =>
       /\ \A r1 \in last'.created, r2 \in last'.created :
            LinkOf(transactions', r1) = LinkOf(transactions', r2) => r1 = r2
       /\ \A d \in DOMAIN transactions :
            transactions'[d] # transactions[d] =>
              \E r \in last'.created :
                /\ LinkOf(transactions', r) = d
                /\ transactions'[r].amount =
                     RemainingOf(transactions[d]) - RemainingOf(transactions'[d])
       /\ Cardinality(last'.created) > 1 =>
            \A r \in last'.created :
              LinkOf(transactions', r) \in DOMAIN transactions]_vars

\* a payment linked to an unsettled debt of its own contact and direction
\* settled it and went on to another debt: two records, two debts
C23_Witness ==
  /\ PaymentSubmitted
  /\ last.ok
  /\ last.linked_transaction_id \in DOMAIN transactions
  /\ Cardinality(last.created) = 2
  /\ LET l == transactions[last.linked_transaction_id]
     IN  /\ l.type \in Direction(last.type)
         /\ Lower(l.contact_name) = Lower(last.contact_name)
         /\ l.status = "settled"
         /\ l.amount > 0
  /\ \E r \in last.created :
       /\ LinkOf(transactions, r) # last.linked_transaction_id
       /\ transactions[r].amount > 0

\* C24: direction filter.  Without an explicit link, a payment_received
\* submitted through create_transaction only ever reduces credit_receivable
\* or loan_receivable debts, and a payment_made only credit_payable or
\* loan_payable debts, unsettled and of the payment's contact; debts of the
\* opposite direction, settled debts and debts of other contacts are left
\* unchanged.
C24_DirectionFilter ==
  [][(PaymentSubmitted' /\ last'.linked_transaction_id = NoId) =>
       \A d \in DOMAIN transactions :
         transactions'[d] # transactions[d] =>
           /\ transactions[d].type \in Direction(last'.type)
           /\ transactions[d].status \in {"open", "partial"}
           /\ IF last'.contact_id # NoId
                THEN transactions[d].contact_id = last'.contact_id
                ELSE transactions[d].contact_id
                       \in NamedIn(contacts', last'.user_id, last'.contact_name)]_vars

\* a payment made to "ana" without a link reduced a payable of Ana and left
\* an older, open receivable of Ana whole
C24_Witness ==
  /\ PaymentSubmitted
  /\ last.ok
  /\ last.type = "payment_made"
  /\ last.linked_transaction_id = NoId
  /\ \E r \in last.created, e \in DOMAIN transactions :
       /\ LinkOf(transactions, r) \in DOMAIN transactions
       /\ transactions[LinkOf(transactions, r)].type = "loan_payable"
       /\ transactions[r].amount > 0
       /\ transactions[e].type = "credit_receivable"
       /\ transactions[e].contact_name = "Ana"
       /\ transactions[e].date < transactions[LinkOf(transactions, r)].date
       /\ transactions[e].status = "open"
       /\ transactions[e].remaining_amount = {transactions[e].amount}

\* C25: per-debt conservation under sequential create_transaction.  After
\* any sequence of create_transaction calls with positive amounts, for
\* every debt-opening transaction, amount minus remaining_amount equals the
\* sum of the amounts of the payment transactions whose
\* linked_transaction_id is that debt.
C25_PaymentsAccountForDebt ==
  \A d \in DOMAIN transactions :
    IsDebt(transactions[d]) =>
      transactions[d].amount - RemainingOf(transactions[d])
        = Paid(transactions, d)

\* the user's debts of the types given
DebtsOf(user, types) ==
  {d \in DOMAIN transactions :
     transactions[d].user_id = user /\ transactions[d].type \in types}

\* the user's payments of a type, linked to one of the debts given, or not
PaymentsInto(user, type, debts) ==
  {r \in DOMAIN transactions :
     /\ transactions[r].user_id = user
     /\ transactions[r].type = type
     /\ transactions[r].linked_transaction_id \in debts}

PaymentsBeside(user, type, debts) ==
  {r \in DOMAIN transactions :
     /\ transactions[r].user_id = user
     /\ transactions[r].type = type
     /\ transactions[r].linked_transaction_id \notin debts}

\* C26 as claimed: after create_transaction calls with positive amounts by
\* one user, the credit total get_balances returns equals the sum of
\* remaining_amount over the user's receivables, and the loan total the sum
\* over the user's payables.
C26_BalancesMatchRemaining ==
  last.op = "get_balances" =>
    /\ last.balances.credit =
         SumRemaining(DebtsOf(last.user_id,
                              {"credit_receivable", "loan_receivable"}))
    /\ last.balances.loan =
         SumRemaining(DebtsOf(last.user_id, {"credit_payable", "loan_payable"}))

\* C26 as amended: the credit total equals the sum of remaining_amount over
\* the user's receivables, less the amounts of the payment_received
\* transactions not linked to a receivable, plus the amounts of the
\* payment_made transactions linked to a receivable; the loan total equals
\* the sum over the payables, less the payment_made transactions not linked
\* to a payable, plus the payment_received transactions linked to a payable.
C26_BalancesMatchLedger ==
  last.op = "get_balances" =>
    LET u == last.user_id
        receivables == DebtsOf(u, {"credit_receivable", "loan_receivable"})
        payables == DebtsOf(u, {"credit_payable", "loan_payable"})
    IN  /\ last.balances.credit =
             SumRemaining(receivables)
             - SumCreated(transactions,
                          PaymentsBeside(u, "payment_received", receivables))
             + SumCreated(transactions,
                          PaymentsInto(u, "payment_made", receivables))
        /\ last.balances.loan =
             SumRemaining(payables)
             - SumCreated(transactions,
                          PaymentsBeside(u, "payment_made", payables))
             + SumCreated(transactions,
                          PaymentsInto(u, "payment_received", payables))

\* balances were returned to a user with a receivable paid in part by a
\* payment received and in part by a payment made that was linked to it
C26_Witness ==
  /\ last.op = "get_balances"
  /\ \E d \in DebtsOf(last.user_id, {"credit_receivable"}) :
       /\ PaymentsInto(last.user_id, "payment_received", {d}) # {}
       /\ PaymentsInto(last.user_id, "payment_made", {d}) # {}
       /\ transactions[d].status = "settled"
  /\ last.balances.credit > 0

\* C27: debt fields belong to debts only.  After any sequence of
\* create_transaction and confirm_draft operations, a transaction whose
\* type is not debt-opening has no status and no remaining_amount.
C27_DebtFieldsOnDebtsOnly ==
  \A t \in DOMAIN transactions :
    ~IsDebt(transactions[t]) =>
      /\ transactions[t].status = NoStatus
      /\ transactions[t].remaining_amount = NoAmount

\* C28: every payment record that create_transaction creates for a request
\* with a positive amount has an amount strictly greater than 0, also when
\* the explicitly linked transaction is already settled.
C28_RecordsArePositive ==
  [][(PaymentSubmitted' /\ last'.ok /\ last'.amount > 0) =>
       \A r \in last'.created : transactions'[r].amount > 0]_vars

\* C29: name-based reachability of debts.  In every reachable state, also
\* after contacts were deleted or created through the contacts API, if the
\* user has an unsettled receivable whose contact_name equals N ignoring
\* case, a payment_received submitted through create_transaction with
\* contact_name N, no contact_id, no link and a positive amount reduces the
\* remaining_amount of at least one such debt.
C29_NamedDebtIsReached ==
  [][(/\ PaymentSubmitted'
      /\ last'.type = "payment_received"
      /\ last'.contact_name # NoName
      /\ last'.contact_id = NoId
      /\ last'.linked_transaction_id = NoId
      /\ last'.amount > 0
      /\ ContactDebts(last') # {}) =>
       \E d \in ContactDebts(last') :
         RemainingOf(transactions'[d]) < RemainingOf(transactions[d])]_vars

\* C30: a draft is converted into at most one transaction and applied to
\* its linked debt at most once, under every interleaving of confirm_draft
\* requests for the same draft: a confirmation that commits a transaction
\* finds the draft pending at its commit.
C30_DraftConvertedOnce ==
  [][\A slot \in DOMAIN sessions :
       (Committing(slot) /\ last'.ok) =>
         drafts[sessions[slot].draft_id].status = "pending"]_vars

====
